---- MODULE Spec2Model ----
(***************************************************************************)
(* ThreatScope: the ThreatRAG engine (rag_engine.py) and the Streamlit     *)
(* front end that drives it (app.py).                                      *)
(*                                                                         *)
(* Python strings are sequences of one-character strings, so that lower(), *)
(* split(), strip(), replace(), substring tests and the brace regex are    *)
(* computed character by character.                                        *)
(***************************************************************************)
EXTENDS Integers, Sequences, FiniteSets, TLC

VARIABLES
    data,         \* the directory self.data_path: "missing" or its files
    prompts,      \* the files present under prompts/ (name -> content)
    store,        \* the Chroma collection persisted at self.db_path
    vectorstore,  \* self.vectorstore: "None" or "Chroma"
    counts,       \* history: chunk count at db_path after each completed build
    last          \* the most recent call: its inputs, its trace and its outcome

vars == <<data, prompts, store, vectorstore, counts, last>>

(***************************************************************************)
(* Bounds of the model.                                                    *)
(***************************************************************************)
MaxFrags == 2     \* fragments concatenated into a detect_mode input
MaxParts == 3     \* fragments concatenated into a raw model output
MaxBuilds == 2    \* build_index calls followed in one behaviour

(***************************************************************************)
(* Python values                                                           *)
(***************************************************************************)
None == <<"<None>">>

\* the backquote character (a string of the module cannot hold it literally)
Backtick == "<backquote>"

Truthy(x) == x # None /\ x # <<>>

UpperCase == <<"A", "B", "C", "D", "E", "F", "G", "H", "I", "J", "K", "L", "M",
           "N", "O", "P", "Q", "R", "S", "T", "U", "V", "W", "X", "Y", "Z">>

LowerCase == <<"a", "b", "c", "d", "e", "f", "g", "h", "i", "j", "k", "l", "m",
           "n", "o", "p", "q", "r", "s", "t", "u", "v", "w", "x", "y", "z">>

\* the lower-case letter of each upper-case letter
ToLower ==
    [c \in {UpperCase[i] : i \in 1..Len(UpperCase)} |->
        LowerCase[CHOOSE i \in 1..Len(UpperCase) : UpperCase[i] = c]]

LowerChar(c) == IF c \in DOMAIN ToLower THEN ToLower[c] ELSE c

\* str.lower()
lower(s) == [i \in 1..Len(s) |-> LowerChar(s[i])]

\* k in t  (substring test)
Contains(k, t) ==
    \E i \in 0..(Len(t) - Len(k)) :
        \A j \in 1..Len(k) : t[i + j] = k[j]

\* str.replace(a, b) for one-character a and b
replace(s, a, b) == [i \in 1..Len(s) |-> IF s[i] = a THEN b ELSE s[i]]

IsSpace(c) == c = " " \/ c = "\n" \/ c = "\t"

RECURSIVE SkipWs(_, _)
\* the first index at or after i that holds no whitespace (Len(s) + 1 if none)
SkipWs(s, i) ==
    IF i <= Len(s) /\ IsSpace(s[i]) THEN SkipWs(s, i + 1) ELSE i

RECURSIVE Scan(_, _, _)
\* the first index at or after i that holds a character of stop (Len(s) + 1 if none)
Scan(s, i, stop) ==
    IF i <= Len(s) /\ s[i] \notin stop THEN Scan(s, i + 1, stop) ELSE i

RECURSIVE LastNonWs(_, _)
\* the last index at or before j that holds no whitespace (0 if none)
LastNonWs(s, j) ==
    IF j >= 1 /\ IsSpace(s[j]) THEN LastNonWs(s, j - 1) ELSE j

\* str.strip()
strip(s) == SubSeq(s, SkipWs(s, 1), LastNonWs(s, Len(s)))

\* str.split()[0]: the first whitespace-delimited word (s is not blank)
FirstWord(s) ==
    LET a == SkipWs(s, 1)
    IN  SubSeq(s, a, Scan(s, a, {" ", "\n", "\t"}) - 1)

RECURSIVE Concats(_, _)
\* every concatenation of at most n members of the set F of strings
Concats(F, n) ==
    IF n = 0 THEN {<<>>}
    ELSE LET P == Concats(F, n - 1)
         IN  P \cup {p \o f : p \in P, f \in F}

(***************************************************************************)
(* Mode detection                                                          *)
(***************************************************************************)
ir_keys == {
    <<"f", "a", "i", "l", "e", "d", " ", "l", "o", "g", "i", "n">>,
    <<"b", "r", "u", "t", "e", "f", "o", "r", "c", "e">>,
    <<"c", "o", "n", "n", "e", "c", "t", "i", "o", "n", " ", "a", "t", "t", "e", "m", "p", "t">>,
    <<"n", "c", " ", "-", "e">>,
    <<"/", "t", "m", "p", "/">>,
    <<"r", "e", "v", "e", "r", "s", "e", " ", "s", "h", "e", "l", "l">>,
    <<"o", "u", "t", "b", "o", "u", "n", "d", " ", "t", "r", "a", "f", "f", "i", "c">>,
    <<"u", "n", "a", "u", "t", "h", "o", "r", "i", "z", "e", "d">> }

ti_keys == {
    <<"a", "p", "t">>,
    <<"m", "a", "l", "w", "a", "r", "e">>,
    <<"t", "t", "p">>,
    <<"c", "a", "m", "p", "a", "i", "g", "n">>,
    <<"m", "i", "t", "r", "e">>,
    <<"t", "h", "r", "e", "a", "t", " ", "a", "c", "t", "o", "r">>,
    <<"p", "h", "i", "s", "h", "i", "n", "g">>,
    <<"m", "a", "l", "i", "c", "i", "o", "u", "s", " ", "d", "o", "c", "u", "m", "e", "n", "t">>,
    <<"c", "2">> }

IR == <<"I", "R">>

ThreatIntel == <<"T", "h", "r", "e", "a", "t", " ", "I", "n", "t", "e", "l">>

Hybrid == <<"H", "y", "b", "r", "i", "d">>

\* the enumeration of modes
Modes == {IR, ThreatIntel, Hybrid}

\* a classifier that tests the Threat-Intel keywords first
detect_mode_ti_first(text) ==
    LET t == lower(text)
    IN  IF \E k \in ti_keys : Contains(k, t) THEN ThreatIntel
        ELSE IF \E k \in ir_keys : Contains(k, t) THEN IR
        ELSE Hybrid

detect_mode(text) ==
    LET t == lower(text)
    IN  IF \E k \in ir_keys : Contains(k, t) THEN IR
        ELSE IF \E k \in ti_keys : Contains(k, t) THEN ThreatIntel
        ELSE Hybrid

(***************************************************************************)
(* JSON: json.loads and json.dumps(indent=2) over objects, arrays,         *)
(* strings without escapes, unsigned integers and true/false/null.         *)
(* A value is [t, s, m]: its type, its text (scalars) and its members in   *)
(* insertion order (objects: key and value; arrays: value only).           *)
(***************************************************************************)
NoValue == [t |-> "none", s |-> <<>>, m |-> <<>>]

Scalar(type, text) == [t |-> type, s |-> text, m |-> <<>>]

Fail == [ok |-> FALSE, v |-> NoValue, i |-> 0]

Digits == {"0", "1", "2", "3", "4", "5", "6", "7", "8", "9"}

Literals == { <<"t", "r", "u", "e">>, <<"f", "a", "l", "s", "e">>, <<"n", "u", "l", "l">> }

At(s, i, c) == i <= Len(s) /\ s[i] = c

\* a string literal opening at i: up to the next quote, no control characters
ParseString(s, i) ==
    LET j == Scan(s, i + 1, {"\"", "\n", "\t"})
    IN  IF At(s, i, "\"") /\ At(s, j, "\"")
        THEN [ok |-> TRUE, v |-> Scalar("str", SubSeq(s, i + 1, j - 1)), i |-> j + 1]
        ELSE Fail

RECURSIVE DigitsEnd(_, _)
\* the first index at or after i that holds no digit
DigitsEnd(s, i) ==
    IF i <= Len(s) /\ s[i] \in Digits THEN DigitsEnd(s, i + 1) ELSE i

\* an unsigned integer at i: "0", or a run of digits that does not start with 0
ParseNumber(s, i) ==
    LET e == DigitsEnd(s, i)
    IN  IF e = i THEN Fail
        ELSE IF s[i] = "0" THEN [ok |-> TRUE, v |-> Scalar("num", <<"0">>), i |-> i + 1]
        ELSE [ok |-> TRUE, v |-> Scalar("num", SubSeq(s, i, e - 1)), i |-> e]

ParseLiteral(s, i) ==
    LET hit == {w \in Literals : i + Len(w) - 1 <= Len(s) /\ SubSeq(s, i, i + Len(w) - 1) = w}
    IN  IF hit = {} THEN Fail
        ELSE LET w == CHOOSE w \in hit : TRUE
             IN  [ok |-> TRUE, v |-> Scalar("lit", w), i |-> i + Len(w)]

\* dict[k] = v: a repeated key keeps its place and takes the later value
PutMember(m, k, v) ==
    IF \E n \in 1..Len(m) : m[n].k = k
    THEN [n \in 1..Len(m) |-> IF m[n].k = k THEN [k |-> k, v |-> v] ELSE m[n]]
    ELSE Append(m, [k |-> k, v |-> v])

RECURSIVE ParseValue(_, _), ParseMembers(_, _, _), ParseElements(_, _, _)

\* after "{" or ",": "key" : value, then "," or "}"
ParseMembers(s, i, acc) ==
    LET k == ParseString(s, SkipWs(s, i))
    IN  IF ~k.ok THEN Fail
        ELSE LET c == SkipWs(s, k.i)
             IN  IF ~At(s, c, ":") THEN Fail
                 ELSE LET v == ParseValue(s, SkipWs(s, c + 1))
                      IN  IF ~v.ok THEN Fail
                          ELSE LET n == SkipWs(s, v.i)
                                   m == PutMember(acc, k.v.s, v.v)
                               IN  IF At(s, n, ",") THEN ParseMembers(s, n + 1, m)
                                   ELSE IF At(s, n, "}")
                                   THEN [ok |-> TRUE, v |-> [t |-> "obj", s |-> <<>>, m |-> m],
                                         i |-> n + 1]
                                   ELSE Fail

\* after "[" or ",": value, then "," or "]"
ParseElements(s, i, acc) ==
    LET v == ParseValue(s, SkipWs(s, i))
    IN  IF ~v.ok THEN Fail
        ELSE LET n == SkipWs(s, v.i)
                 m == Append(acc, [k |-> <<>>, v |-> v.v])
             IN  IF At(s, n, ",") THEN ParseElements(s, n + 1, m)
                 ELSE IF At(s, n, "]")
                 THEN [ok |-> TRUE, v |-> [t |-> "arr", s |-> <<>>, m |-> m], i |-> n + 1]
                 ELSE Fail

ParseValue(s, i) ==
    IF At(s, i, "{")
    THEN IF At(s, SkipWs(s, i + 1), "}")
         THEN [ok |-> TRUE, v |-> [t |-> "obj", s |-> <<>>, m |-> <<>>],
               i |-> SkipWs(s, i + 1) + 1]
         ELSE ParseMembers(s, i + 1, <<>>)
    ELSE IF At(s, i, "[")
    THEN IF At(s, SkipWs(s, i + 1), "]")
         THEN [ok |-> TRUE, v |-> [t |-> "arr", s |-> <<>>, m |-> <<>>],
               i |-> SkipWs(s, i + 1) + 1]
         ELSE ParseElements(s, i + 1, <<>>)
    ELSE IF At(s, i, "\"") THEN ParseString(s, i)
    ELSE IF i <= Len(s) /\ s[i] \in Digits THEN ParseNumber(s, i)
    ELSE ParseLiteral(s, i)

\* json.loads(s): one value and nothing but whitespace around it; [ok, v]
json_loads(s) ==
    LET r == ParseValue(s, SkipWs(s, 1))
    IN  IF r.ok /\ SkipWs(s, r.i) = Len(s) + 1
        THEN [ok |-> TRUE, v |-> r.v]
        ELSE [ok |-> FALSE, v |-> NoValue]

Indent(d) == [i \in 1..(2 * d) |-> " "]

RECURSIVE Dump(_, _), DumpItems(_, _, _, _)

\* the members from the n-th on, one per line at depth d
DumpItems(v, n, d, isObj) ==
    LET head == Indent(d)
                \o (IF isObj THEN <<"\"">> \o v.m[n].k \o <<"\"", ":", " ">> ELSE <<>>)
                \o Dump(v.m[n].v, d)
    IN  IF n = Len(v.m) THEN head
        ELSE head \o <<",", "\n">> \o DumpItems(v, n + 1, d, isObj)

Dump(v, d) ==
    IF v.t = "str" THEN <<"\"">> \o v.s \o <<"\"">>
    ELSE IF v.t \in {"num", "lit"} THEN v.s
    ELSE IF v.t = "obj"
    THEN IF v.m = <<>> THEN <<"{", "}">>
         ELSE <<"{", "\n">> \o DumpItems(v, 1, d + 1, TRUE) \o <<"\n">> \o Indent(d) \o <<"}">>
    ELSE IF v.m = <<>> THEN <<"[", "]">>
         ELSE <<"[", "\n">> \o DumpItems(v, 1, d + 1, FALSE) \o <<"\n">> \o Indent(d) \o <<"]">>

\* json.dumps(v, indent=2)
json_dumps(v) == Dump(v, 0)

Positions(s, c) == {i \in 1..Len(s) : s[i] = c}

Min(S) == CHOOSE x \in S : \A y \in S : x <= y

Max(S) == CHOOSE x \in S : \A y \in S : y <= x

\* a non-greedy scan, r"\{.*?\}": from the first "{" to the first "}" after it
BraceSpanNonGreedy(text) ==
    LET open == Positions(text, "{")
        close == {j \in Positions(text, "}") : open # {} /\ j > Min(open)}
    IN  IF close # {} THEN SubSeq(text, Min(open), Min(close)) ELSE None

\* re.search(r"\{.*\}", text, re.DOTALL): from the first "{" to the last "}"
BraceSpan(text) ==
    LET open == Positions(text, "{")
        close == Positions(text, "}")
    IN  IF open # {} /\ close # {} /\ Min(open) < Max(close)
        THEN SubSeq(text, Min(open), Max(close))
        ELSE None

\* extract_json(text): the parsed object, or NoValue for Python's None
extract_json(text) ==
    LET span == BraceSpan(text)
    IN  IF span = None THEN NoValue
        ELSE LET r == json_loads(strip(span))
             IN  IF r.ok THEN r.v ELSE NoValue

(***************************************************************************)
(* Files and strings of the deployment                                     *)
(***************************************************************************)
TxtSuffix == <<".", "t", "x", "t">>

FileA == <<"a", ".", "t", "x", "t">>

FileB == <<"b", ".", "t", "x", "t">>

FileC == <<"c", ".", "t", "x", "t">>

FileN == <<"n", "o", "t", "e", "s", ".", "p", "d", "f">>

\* the directory data/threat_reports as build_index may find it
Corpora == {
    [exists |-> FALSE, files |-> <<>>],
    [exists |-> TRUE, files |-> << [name |-> FileN, len |-> 300] >>],
    [exists |-> TRUE, files |-> << [name |-> FileA, len |-> 1400],
                                   [name |-> FileB, len |-> 0],
                                   [name |-> FileC, len |-> 500],
                                   [name |-> FileN, len |-> 300] >>] }

PromptPrefix ==
    <<"p", "r", "o", "m", "p", "t", "s", "/", "p", "r", "o", "m", "p", "t", "_">>

\* the prompts/ directory with the three templates of the repository
PromptFiles == {
    [name |-> <<"p", "r", "o", "m", "p", "t", "s", "/", "p", "r", "o", "m", "p", "t", "_", "i", "r", ".", "t", "x", "t">>,
     content |-> <<"I", "R", " ", "a", "n", "a", "l", "y", "s", "t", " ", "t", "e", "m", "p", "l", "a", "t", "e", "\n">>],
    [name |-> <<"p", "r", "o", "m", "p", "t", "s", "/", "p", "r", "o", "m", "p", "t", "_", "t", "h", "r", "e", "a", "t", "_", "i", "n", "t", "e", "l", ".", "t", "x", "t">>,
     content |-> <<"\n", "T", "h", "r", "e", "a", "t", " ", "i", "n", "t", "e", "l", " ", "t", "e", "m", "p", "l", "a", "t", "e", "\n">>],
    [name |-> <<"p", "r", "o", "m", "p", "t", "s", "/", "p", "r", "o", "m", "p", "t", "_", "h", "y", "b", "r", "i", "d", ".", "t", "x", "t">>,
     content |-> <<"H", "y", "b", "r", "i", "d", " ", "t", "e", "m", "p", "l", "a", "t", "e">>] }

FALLBACK_PROMPT ==
    <<"Y", "o", "u", " ", "a", "r", "e", " ", "a", " ", "c", "y", "b", "e", "r", "s", "e", "c", "u", "r", "i", "t", "y", " ", "a", "n", "a", "l", "y", "s", "t", ".", " ", "R", "e", "t", "u", "r", "n", " ", "O", "N", "L", "Y", " ", "a", " ", "v", "a", "l", "i", "d", " ", "J", "S", "O", "N", " ", "o", "b", "j", "e", "c", "t", " ", "f", "o", "l", "l", "o", "w", "i", "n", "g", " ", "t", "h", "e", " ", "r", "e", "q", "u", "i", "r", "e", "d", " ", "s", "c", "h", "e", "m", "a", ".">>

\* the options of the "Choose analysis mode" radio
AutoDetect == <<"A", "u", "t", "o", " ", "D", "e", "t", "e", "c", "t">>

IRIncidentResponse ==
    <<"I", "R", " ", "(", "I", "n", "c", "i", "d", "e", "n", "t", " ", "R", "e", "s", "p", "o", "n", "s", "e", ")">>

UserModes == {AutoDetect, IRIncidentResponse, ThreatIntel, Hybrid}

\* the options of the "Choose a model" select box
ModelChoices == {"qwen2.5:0.5b", "llama3.2:1b"}

DefaultModel == "qwen2.5:0.5b"

\* texts a user asks about or uploads
QueryTexts == {
    <<"N", "C", " ", "-", "E", " ", "t", "h", "e", "n", " ", "A", "P", "T">>,
    <<"A", "p", "t", "2", "9", " ", "p", "h", "i", "s", "h", "i", "n", "g">>,
    <<"u", "p", "t", "i", "m", "e", " ", "o", "k">> }

\* an input of blanks only
Blank == <<" ">>

(***************************************************************************)
(* Index building                                                          *)
(***************************************************************************)
chunk_size == 800

chunk_overlap == 200

endswith(s, suf) ==
    Len(suf) <= Len(s) /\ SubSeq(s, Len(s) - Len(suf) + 1, Len(s)) = suf

\* the documents TextLoader loads: one per *.txt file of the directory
LoadDocs(dir) == SelectSeq(dir.files, LAMBDA f : endswith(f.name, TxtSuffix))

\* chunks the splitter cuts from a text of n characters: windows of chunk_size
\* that advance by chunk_size - chunk_overlap
SplitCount(n) ==
    IF n = 0 THEN 0
    ELSE IF n <= chunk_size THEN 1
    ELSE 1 + ((n - chunk_size) + (chunk_size - chunk_overlap) - 1)
                 \div (chunk_size - chunk_overlap)

RECURSIVE split_documents(_)
split_documents(docs) ==
    IF docs = <<>> THEN <<>>
    ELSE [i \in 1..SplitCount(Head(docs).len) |-> [source |-> Head(docs).name, part |-> i]]
         \o split_documents(Tail(docs))

NoStore == [exists |-> FALSE, chunks |-> <<>>]

\* os.makedirs(db_path) when absent, and a Chroma client opened on db_path:
\* what is persisted there is kept
OpenStore(st) == [exists |-> TRUE, chunks |-> st.chunks]

\* Chroma.from_documents(chunks, ..., persist_directory=db_path) then persist():
\* the chunks are added, under fresh ids, to the collection found at db_path
AddDocuments(st, chunks) == [exists |-> TRUE, chunks |-> st.chunks \o chunks]

(***************************************************************************)
(* Prompt loading                                                          *)
(***************************************************************************)
safe_name(mode) == replace(lower(mode), " ", "_")

load_prompt_template(mode) ==
    LET fname == PromptPrefix \o safe_name(mode) \o TxtSuffix
        found == {f \in prompts : f.name = fname}
    IN  IF found # {} THEN strip((CHOOSE f \in found : TRUE).content)
        ELSE FALLBACK_PROMPT

(***************************************************************************)
(* Query pipeline                                                          *)
(***************************************************************************)
top_k == 5

NoPrompt == [template |-> None, context |-> <<>>, user_input |-> None, schema_mode |-> None]

NoResponse == [pre |-> None, obj |-> None, post |-> None]

\* the record of a call before anything of it has happened
Idle ==
    [op |-> "none", via |-> "", user_mode |-> None, user_query |-> None,
     model_name |-> "", forced_mode |-> None, mode |-> None, template |-> None,
     prompt |-> NoPrompt, calls |-> <<>>, outcome |-> "none", error |-> "",
     raw |-> NoResponse, response |-> None, result |-> None, result_type |-> "",
     store_before |-> NoStore, handle_before |-> "None"]

\* a resolution that lets the classifier override the caller's choice
ResolveModeDetectFirst(forced_mode, user_query) ==
    IF detect_mode(user_query) # Hybrid THEN detect_mode(user_query)
    ELSE IF Truthy(forced_mode) THEN forced_mode ELSE Hybrid

\* mode = forced_mode if forced_mode else self.detect_mode(user_query)
ResolveMode(forced_mode, user_query) ==
    IF Truthy(forced_mode) THEN forced_mode ELSE detect_mode(user_query)

\* a prompt whose schema block always names the classifier's mode
ComposePromptDetected(mode, template, docs, user_query) ==
    [template |-> template, context |-> docs, user_input |-> user_query,
     schema_mode |-> detect_mode(user_query)]

\* full_prompt: the template, the retrieved chunks, the input and the schema
\* block with "mode": "{mode}"
ComposePrompt(mode, template, docs, user_query) ==
    [template |-> template, context |-> docs, user_input |-> user_query,
     schema_mode |-> mode]

\* similarity_search(user_query, k=5): at most top_k chunks of the collection
similarity_search(st) ==
    SubSeq(st.chunks, 1, IF Len(st.chunks) < top_k THEN Len(st.chunks) ELSE top_k)

\* a pipeline that asks the model a second time when the first call fails
ExternalCallsRetry(retrOk, genOk) ==
    IF ~retrOk THEN << [service |-> "retrieval", ok |-> FALSE] >>
    ELSE IF genOk THEN << [service |-> "retrieval", ok |-> TRUE],
                          [service |-> "generation", ok |-> TRUE] >>
    ELSE << [service |-> "retrieval", ok |-> TRUE],
            [service |-> "generation", ok |-> FALSE],
            [service |-> "generation", ok |-> FALSE] >>

\* the external calls of one query, in order: similarity_search, then the model;
\* an exception of either leaves query at once
ExternalCalls(retrOk, genOk) ==
    IF ~retrOk THEN << [service |-> "retrieval", ok |-> FALSE] >>
    ELSE << [service |-> "retrieval", ok |-> TRUE],
            [service |-> "generation", ok |-> genOk] >>

\* the Python type of the value query returns: json.dumps(parsed, indent=2) at
\* line 203 is a str, and response at line 206 is a str
ReturnType(parsed) == IF parsed # NoValue THEN "str" ELSE "str"

\* what the vector store and the model answer to one query
Answers(R) ==
    { [retrOk |-> FALSE, genOk |-> FALSE, raw |-> NoResponse],
      [retrOk |-> TRUE, genOk |-> FALSE, raw |-> NoResponse] }
    \cup { [retrOk |-> TRUE, genOk |-> TRUE, raw |-> r] : r \in R }

\* query on an engine whose self.vectorstore is h
query(h, via, user_mode, user_query, model_name, forced_mode, ans) ==
    LET st == IF h = "None" THEN OpenStore(store) ELSE store
        mode == ResolveMode(forced_mode, user_query)
        template == load_prompt_template(mode)
        calls == ExternalCalls(ans.retrOk, ans.genOk)
        answered == \A i \in 1..Len(calls) : calls[i].ok
        generated == answered /\ \E i \in 1..Len(calls) : calls[i].service = "generation"
        docs == IF calls[1].ok THEN similarity_search(st) ELSE <<>>
        response == ans.raw.pre \o ans.raw.obj \o ans.raw.post
        parsed == extract_json(response)
        call == [Idle EXCEPT !.op = "query", !.via = via, !.user_mode = user_mode,
                             !.user_query = user_query, !.model_name = model_name,
                             !.forced_mode = forced_mode, !.mode = mode,
                             !.template = template, !.calls = calls,
                             !.store_before = store, !.handle_before = h]
    IN  /\ vectorstore' = "Chroma"
        /\ store' = st
        /\ UNCHANGED <<data, prompts, counts>>
        /\ last' =
             IF generated
             THEN [call EXCEPT !.prompt = ComposePrompt(mode, template, docs, user_query),
                               !.outcome = "returned",
                               !.raw = ans.raw, !.response = response,
                               !.result = IF parsed # NoValue THEN json_dumps(parsed)
                                          ELSE response,
                               !.result_type = ReturnType(parsed)]
             ELSE [call EXCEPT !.prompt = IF calls[1].ok
                                          THEN ComposePrompt(mode, template, docs, user_query)
                                          ELSE NoPrompt,
                               !.outcome = "raised", !.error = "ServiceError"]

\* build_index on an engine whose self.vectorstore is h
build_index(h, via) ==
    LET chunks == split_documents(LoadDocs(data))
        call == [Idle EXCEPT !.op = "build_index", !.via = via,
                             !.store_before = store, !.handle_before = h]
    IN  /\ Len(counts) < MaxBuilds
        /\ UNCHANGED <<data, prompts>>
        /\ \/ \* os.listdir(self.data_path) raises
              /\ ~data.exists
              /\ vectorstore' = h
              /\ UNCHANGED <<store, counts>>
              /\ last' = [call EXCEPT !.outcome = "raised", !.error = "FileNotFoundError"]
           \/ \* nothing to add: from_documents hands back the collection as it is
              /\ data.exists /\ chunks = <<>>
              /\ vectorstore' = "Chroma"
              /\ store' = OpenStore(store)
              /\ counts' = Append(counts, Len(store.chunks))
              /\ last' = [call EXCEPT !.outcome = "returned"]
           \/ \* nothing to add: the vector store rejects the empty batch
              /\ data.exists /\ chunks = <<>>
              /\ vectorstore' = h
              /\ store' = OpenStore(store)
              /\ UNCHANGED counts
              /\ last' = [call EXCEPT !.outcome = "raised", !.error = "ValueError"]
           \/ \* the chunks are embedded and persisted
              /\ data.exists /\ chunks # <<>>
              /\ vectorstore' = "Chroma"
              /\ store' = AddDocuments(store, chunks)
              /\ counts' = Append(counts, Len(store'.chunks))
              /\ last' = [call EXCEPT !.outcome = "returned",
                                      !.calls = << [service |-> "embedding", ok |-> TRUE] >>]
           \/ \* the embedding service fails
              /\ data.exists /\ chunks # <<>>
              /\ vectorstore' = h
              /\ store' = OpenStore(store)
              /\ UNCHANGED counts
              /\ last' = [call EXCEPT !.outcome = "raised", !.error = "ServiceError",
                                      !.calls = << [service |-> "embedding", ok |-> FALSE] >>]

(***************************************************************************)
(* What the model may answer                                               *)
(***************************************************************************)
\* the answer of the model in the pipeline: an object in a fenced block
Responses == {
    [pre |-> <<"S", "u", "r", "e", "!", " ", Backtick, Backtick, Backtick, "j", "s", "o", "n", "\n">>,
     obj |-> <<"{", "\"", "m", "o", "d", "e", "\"", ":", "\"", "I", "R", "\"", "}">>,
     post |-> <<"\n", Backtick, Backtick, Backtick, " ", "D", "o", "n", "e", ".">>] }

\* pieces the embedded text of an answer is made of
JsonFragments == {
    <<"{", "\"", "k", "\"", ":", "1">>,
    <<"{", "\"", "n", "\"", ":">>,
    <<"}">>,
    <<"{", "}">>,
    <<",", "\"", "k", "\"", ":", "\"", "}", "\"">>,
    <<"{", "\"", "m", "\"", ":", "\"", "I", "R", "\"", "}">> }

\* prose before and after the embedded text
Envelopes == {
    [pre |-> <<>>, post |-> <<>>],
    [pre |-> <<"S", "u", "r", "e", "!", " ", Backtick, Backtick, Backtick, "j", "s", "o", "n", "\n">>,
     post |-> <<"\n", Backtick, Backtick, Backtick, " ", "D", "o", "n", "e", ".">>],
    [pre |-> <<"N", "o", "t", "e", " ", "{", "x", "}", ":", " ">>, post |-> <<>>],
    [pre |-> <<>>, post |-> <<" ", "(", "s", "e", "e", " ", "}", " ", "a", "b", "o", "v", "e", ")">>],
    [pre |-> <<"}", " ">>, post |-> <<" ", "{">>] }

RawResponses ==
    { [pre |-> e.pre, obj |-> o, post |-> e.post] :
          e \in Envelopes, o \in Concats(JsonFragments, MaxParts) }

\* pieces of the texts given to detect_mode
DetectFragments == {
    <<"F", "a", "i", "l", "e", "d", " ">>,
    <<"L", "O", "G", "I", "N">>,
    <<"n", "c", " ", "-", "e">>,
    <<"/", "T", "M", "P", "/">>,
    <<"A", "P", "T">>,
    <<"c", "2">>,
    <<"M", "a", "l">>,
    <<"w", "a", "r", "e">>,
    <<"o", "k", " ">> }

(***************************************************************************)
(* Operations                                                              *)
(***************************************************************************)
Init ==
    /\ data \in Corpora
    /\ prompts = PromptFiles
    /\ store = NoStore
    /\ vectorstore = "None"
    /\ counts = <<>>
    /\ last = Idle

\* rag = ThreatRAG(): self.vectorstore = None; what is on disk stays
Construct ==
    /\ vectorstore' = "None"
    /\ last' = [Idle EXCEPT !.op = "__init__"]
    /\ UNCHANGED <<data, prompts, store, counts>>

\* rag.build_index() on the engine at hand
CallBuildIndex == build_index(vectorstore, "api")

\* rag.query(user_query, forced_mode=...) on the engine at hand
CallQuery ==
    \E q \in QueryTexts, f \in {None, <<>>} \cup Modes, a \in Answers(Responses) :
        query(vectorstore, "api", None, q, DefaultModel, f, a)

\* rag.detect_mode(text)
DetectMode ==
    /\ last.op = "input"
    /\ last' = [Idle EXCEPT !.op = "detect_mode", !.user_query = last.user_query,
                            !.mode = detect_mode(last.user_query),
                            !.outcome = "returned"]
    /\ UNCHANGED <<data, prompts, store, vectorstore, counts>>

\* a query whose retrieval and generation succeed, over the answers of the model
QueryAnswered ==
    /\ last.op = "input"
    /\ query(vectorstore, "api", None, last.user_query, DefaultModel, None,
             [retrOk |-> TRUE, genOk |-> TRUE, raw |-> last.raw])

\* app.py run with "Build / Refresh Index" pressed: a new engine, then build_index
PressBuild == build_index("None", "Build / Refresh Index")

\* app.py run with "Ask" pressed
PressAsk ==
    \E question \in QueryTexts \cup {Blank}, model_choice \in ModelChoices,
       a \in Answers(Responses) :
        /\ strip(question) # <<>>
        /\ query("None", "Ask Question", None, question, model_choice, None, a)

\* app.py run with "Analyze Cyber Threats" pressed
PressAnalyze ==
    \E file_text \in QueryTexts, user_mode \in UserModes,
       model_choice \in ModelChoices, a \in Answers(Responses) :
        /\ Truthy(file_text)
        /\ LET forced_mode == IF user_mode = AutoDetect THEN None
                              ELSE FirstWord(user_mode)
           IN  query("None", "Analyze File", user_mode, file_text, model_choice,
                     forced_mode, a)

Next ==
    \/ Construct
    \/ CallBuildIndex
    \/ CallQuery
    \/ PressBuild
    \/ PressAsk
    \/ PressAnalyze

Spec == Init /\ [][Next]_vars

\* the engine over the repository's prompts and a corpus of reports
Deployed ==
    /\ data \in {d \in Corpora : LoadDocs(d) # <<>>}
    /\ prompts = PromptFiles
    /\ store = NoStore
    /\ vectorstore = "None"
    /\ counts = <<>>

\* detect_mode over the texts made of at most MaxFrags fragments
InitDetect ==
    /\ Deployed
    /\ \E text \in Concats(DetectFragments, MaxFrags) :
           last = [Idle EXCEPT !.op = "input", !.user_query = text]

SpecDetect == InitDetect /\ [][DetectMode]_vars

\* query over the answers whose embedded text is made of at most MaxParts pieces
InitParse ==
    /\ Deployed
    /\ \E r \in RawResponses :
           last = [Idle EXCEPT !.op = "input", !.raw = r,
                               !.user_query = <<"u", "p", "t", "i", "m", "e", " ", "o", "k">>]

SpecParse == InitParse /\ [][QueryAnswered]_vars

(***************************************************************************)
(* Properties                                                              *)
(***************************************************************************)
\* some key of keys occurs in the text t
Occurs(keys, t) ==
    \E k \in keys : \E i \in 0..(Len(t) - Len(k)) : SubSeq(t, i + 1, i + Len(k)) = k

\* C1: detect_mode returns IR when the lower-cased text holds an IR keyword,
\* whatever Threat-Intel keywords it holds too; else "Threat Intel" when it
\* holds a Threat-Intel keyword; else Hybrid. The empty text gives Hybrid, and
\* the mode depends on the text alone.
C1_DetectMode ==
    last.op = "detect_mode" =>
        LET t == lower(last.user_query)
            ir == Occurs(ir_keys, t)
            ti == Occurs(ti_keys, t)
        IN  /\ ir => last.mode = IR
            /\ (~ir /\ ti) => last.mode = ThreatIntel
            /\ (~ir /\ ~ti) => last.mode = Hybrid
            /\ last.user_query = <<>> => last.mode = Hybrid

\* a text in mixed case with keywords of both lists has been classified
C1_Witness ==
    /\ last.op = "detect_mode"
    /\ last.user_query # lower(last.user_query)
    /\ Occurs(ir_keys, lower(last.user_query))
    /\ Occurs(ti_keys, lower(last.user_query))
    /\ last.mode = IR

\* C2 (as claimed): every completed build_index over the same corpus and the
\* same storage path leaves the same number of chunks in the index.
C2_Original == \A i \in 1..Len(counts) : counts[i] = counts[1]

Invoked(service) == \E i \in 1..Len(last.calls) : last.calls[i].service = service

\* C3 (as claimed): a query made with no index built in-process and nothing at
\* the storage location fails, and the generation service is not invoked.
C3_Original ==
    (last.op = "query" /\ last.handle_before = "None" /\ ~last.store_before.exists)
        => (last.outcome = "raised" /\ ~Invoked("generation"))

\* C4 (as claimed): build_index over a missing corpus directory, or one with
\* no *.txt document, fails and leaves the stored chunks and the in-process
\* handle as they were.
C4_Original ==
    (last.op = "build_index" /\ (~data.exists \/ LoadDocs(data) = <<>>))
        => /\ last.outcome = "raised"
           /\ store.chunks = last.store_before.chunks
           /\ vectorstore = last.handle_before

\* the type of the value query returns for an answer that holds an object
StructuredType == ReturnType([t |-> "obj", s |-> <<>>, m |-> <<>>])

Unparseable(text) ==
    \/ BraceSpan(text) = None
    \/ ~json_loads(strip(BraceSpan(text))).ok

\* C5 (as claimed): when the raw output holds no parseable JSON object, query
\* returns that text unchanged, without raising, in a shape the caller can
\* tell from a structured result.
C5_Original ==
    (last.op = "query" /\ last.response # None /\ Unparseable(last.response))
        => /\ last.outcome = "returned"
           /\ last.result = last.response
           /\ last.result_type # StructuredType

WellFormedObject(text) == json_loads(text).ok /\ json_loads(text).v.t = "obj"

Has(text, c) == \E i \in 1..Len(text) : text[i] = c

\* C6 (as claimed): for raw output made of one well-formed JSON object with
\* prose around it, query returns that object.
C6_Original ==
    (last.op = "query" /\ last.outcome = "returned" /\ WellFormedObject(last.raw.obj))
        => last.result = json_dumps(json_loads(last.raw.obj).v)

\* C6 (amended): for raw output made of one well-formed JSON object with prose
\* around it that holds no "{" before the object and no "}" after it, query
\* returns the object from its first "{" to its last "}": the returned text
\* parses to the same fields and values, and holds none of the prose.
C6_EmbeddedObject ==
    (/\ last.op = "query" /\ last.outcome = "returned"
     /\ WellFormedObject(last.raw.obj)
     /\ ~Has(last.raw.pre, "{") /\ ~Has(last.raw.post, "}"))
        => /\ last.result = json_dumps(json_loads(last.raw.obj).v)
           /\ json_loads(last.result).ok
           /\ json_loads(last.result).v = json_loads(last.raw.obj).v

\* a nested object inside a fenced block has been returned without the prose
C6_Witness ==
    /\ last.op = "query" /\ last.outcome = "returned"
    /\ WellFormedObject(last.raw.obj)
    /\ \E i \in 1..Len(json_loads(last.raw.obj).v.m) :
           json_loads(last.raw.obj).v.m[i].v.t = "obj"
    /\ Has(last.raw.pre, Backtick) /\ Has(last.raw.post, Backtick)
    /\ last.result # last.response
    /\ json_loads(last.result).v = json_loads(last.raw.obj).v

\* C7: a forced mode, when supplied (a non-empty string), is the mode of the
\* query and the key of its template, whatever detect_mode says of the input;
\* forced_mode = "Hybrid" gives the Hybrid template.
C7_ForcedMode ==
    (last.op = "query" /\ Truthy(last.forced_mode))
        => /\ last.mode = last.forced_mode
           /\ last.template = load_prompt_template(last.forced_mode)
           /\ last.forced_mode = Hybrid =>
                  last.template = <<"H", "y", "b", "r", "i", "d", " ",
                                     "t", "e", "m", "p", "l", "a", "t", "e">>

\* Hybrid has been forced on an input that detect_mode classifies as IR
C7_Witness ==
    /\ last.op = "query"
    /\ last.forced_mode = Hybrid
    /\ detect_mode(last.user_query) = IR
    /\ last.template # load_prompt_template(IR)
    /\ last.prompt.template = last.template

\* C8: the mode in the schema block of a composed prompt is the mode resolved
\* for the query (the forced mode when supplied, else the detected one), and
\* the template of the prompt is the one that mode selects.
C8_SchemaMode ==
    (last.op = "query" /\ last.prompt # NoPrompt)
        => LET m == IF Truthy(last.forced_mode) THEN last.forced_mode
                    ELSE detect_mode(last.user_query)
           IN  /\ last.prompt.schema_mode = m
               /\ last.prompt.schema_mode = last.mode
               /\ last.prompt.template = load_prompt_template(m)

\* a prompt has been composed under an override that differs from detection
C8_Witness ==
    /\ last.op = "query" /\ last.prompt # NoPrompt
    /\ Truthy(last.forced_mode)
    /\ last.forced_mode # detect_mode(last.user_query)
    /\ last.prompt.schema_mode = last.forced_mode

\* C9 (as claimed): the mode of every query, those of the front end included,
\* is one of IR, Threat Intel, Hybrid, and its template key one of ir,
\* threat_intel, hybrid.
C9_Original ==
    last.op = "query"
        => /\ last.mode \in Modes
           /\ safe_name(last.mode) \in { <<"i", "r">>,
                                         <<"t", "h", "r", "e", "a", "t", "_", "i", "n", "t", "e", "l">>,
                                         <<"h", "y", "b", "r", "i", "d">> }

Calls(service) == {i \in 1..Len(last.calls) : last.calls[i].service = service}

\* C10: a query invokes retrieval at most once and generation at most once,
\* generation only after retrieval succeeded; when an external call fails the
\* query raises, returns nothing, and makes no further external call.
C10_NoRetry ==
    last.op = "query" =>
        /\ Cardinality(Calls("retrieval")) <= 1
        /\ Cardinality(Calls("generation")) <= 1
        /\ \A i \in Calls("generation") :
               \E j \in Calls("retrieval") : j < i /\ last.calls[j].ok
        /\ \A i \in 1..Len(last.calls) :
               ~last.calls[i].ok =>
                   /\ i = Len(last.calls)
                   /\ last.outcome = "raised"
                   /\ last.result = None /\ last.result_type = ""
        /\ last.outcome = "returned" => Cardinality(Calls("generation")) = 1

\* the model failed after a successful retrieval, and the query raised
C10_Witness ==
    /\ last.op = "query"
    /\ Len(last.calls) = 2
    /\ last.calls[1].ok /\ ~last.calls[2].ok
    /\ last.outcome = "raised" /\ last.result = None

====
